---- MODULE Spec2Model ----
(***************************************************************************)
(* Model of src/main.c: three FreeRTOS demos that share no state.          *)
(*   - the three-task deadline demo (updatePriorities, task1..task3)       *)
(*   - the fault-tolerant demo (vFT_Primary, vFT_Backup, vFT_Monitor)      *)
(*   - the watchdog demo (vWorkerTask, vSupervisorTask)                    *)
(* The kernel is single-core, preemptive and priority based: a task takes  *)
(* a step only when it is ready and no task of higher priority is ready;   *)
(* ready tasks of equal priority interleave at statement granularity.      *)
(* Statements take less than one tick; pdMS_TO_TICKS is the identity       *)
(* (1 kHz tick, as uiTraceTimerGetFrequency reports).                      *)
(***************************************************************************)
EXTENDS Integers, Naturals, Sequences, FiniteSets, TLC

VARIABLES
    \* ---- three-task deadline demo
    deadline1, deadline2, deadline3,  \* TickType_t globals
    xTickCount,                       \* value xTaskGetTickCount returns
    taskPriority,                     \* kernel priority of task1..task3
    upLast,                           \* inputs and result of the latest updatePriorities call
    upPrev                            \* inputs and result of the call before it

VARIABLES
    \* ---- fault-tolerant demo
    ftTick,       \* tick count of the fault-tolerant demo
    ftTasks,      \* FaultTolerantTask ftTasks[NUM_FT_TASKS]
    xNextWake,    \* vFT_Primary's local xNextWake, per job
    pPc, pWake,   \* vFT_Primary: position and tick until which it is blocked
    bPc, bWake,   \* vFT_Backup: the same
    mPc, mWake,   \* vFT_Monitor: the same
    pRel,         \* tick at which the Primary's current cycle was released
    pLast,        \* what the Primary's latest finished cycle did
    bLast,        \* what the Backup's latest check did
    bChecks,      \* Backup checks since the Primary's latest release (-1: no release yet)
    relChecks     \* Backup checks between the Primary's two latest releases (-1: none yet)

VARIABLES
    \* ---- watchdog demo
    supPc,             \* vSupervisorTask: position in its loop
    supTimer,          \* ticks left of the supervisor's wait (0: ready)
    ulNotifiedValue,   \* the supervisor's notification value (kernel)
    ucNotifyState,     \* the supervisor's notification state (kernel)
    ulReceivedBits,    \* vSupervisorTask local
    xGot,              \* vSupervisorTask local
    ulMissed,          \* vSupervisorTask locals ulMissed1, ulMissed2
    wPc,               \* vWorkerTask instance behind xWorker1, xWorker2
    wTimer,            \* ticks left of the worker's vTaskDelay (0: ready)
    everHung,          \* whether an instance of the worker ever hung
    restarts,          \* delete-and-recreate count per worker (saturating)
    absentRuns,        \* wait returns without the worker's bit since its last
                       \* consumed heartbeat or its creation (saturating)
    itCur,             \* the supervisor's current (or latest) loop iteration
    itPrev             \* the iteration before it

VARIABLES
    \* ---- three-task deadline demo, the tasks
    dPc,          \* task1..task3: position in the loop
    dWake,        \* tick until which the task is blocked in vTaskDelay
    dBranch       \* the branch of updatePriorities the task is executing

VARIABLES
    \* ---- two-task EDF demo
    edfTick,      \* tick count of the EDF demo
    edfTasks,     \* EDFTask edfTasks[2]
    edfPriority,  \* kernel priority of the tasks behind the two handles
    ePc, eWake,   \* vEDF_TaskA / vEDF_TaskB: position and wake tick
    xLastWake,    \* their local xLastWake
    sWake,        \* vEDF_Scheduler: wake tick
    eRel,         \* tick of each task's most recent release (-1: not run yet)
    sLast         \* what vEDF_Scheduler's latest pass saw

VARIABLES
    \* ---- watchdog demo, the worker tasks behind the handles
    xWorker,      \* xWorker1, xWorker2: the handle stored for each worker
    taskParam,    \* pvParameters of the live vWorkerTask at each handle value, 0: none
    taskSent      \* bits each live vWorkerTask has sent since its creation

upVars == <<deadline1, deadline2, deadline3, xTickCount, taskPriority, upLast, upPrev>>

ftVars == <<ftTick, ftTasks, xNextWake, pPc, pWake, bPc, bWake, mPc, mWake,
            pRel, pLast, bLast, bChecks, relChecks>>

wdVars == <<supPc, supTimer, ulNotifiedValue, ucNotifyState, ulReceivedBits, xGot,
            ulMissed, wPc, wTimer, everHung, restarts, absentRuns, itCur, itPrev,
           xWorker, taskParam, taskSent>>

demoVars == <<dPc, dWake, dBranch>>

edfVars == <<edfTick, edfTasks, edfPriority, ePc, eWake, xLastWake, sWake, eRel, sLast>>

vars == <<upVars, ftVars, wdVars, demoVars, edfVars>>

(***************************************************************************)
(* Three-task deadline demo                                                *)
(***************************************************************************)

\* largest deadline value drawn for the function-level check
MaxDeadline == 4
\* largest tick value at which updatePriorities is called
MaxTickCount == 4
Tasks3 == 1..3

\* (deadline > currentTick) ? deadline - currentTick : 0
Remaining(deadline, currentTick) ==
    IF deadline > currentTick THEN deadline - currentTick ELSE 0

\* variant: the branches taken for the largest remaining time
PrioritiesForLatestFirst(d1, d2, d3, currentTick) ==
    LET remaining1 == Remaining(d1, currentTick)
        remaining2 == Remaining(d2, currentTick)
        remaining3 == Remaining(d3, currentTick)
    IN  IF remaining1 >= remaining2 /\ remaining1 >= remaining3
        THEN <<3, 2, 1>>
        ELSE IF remaining2 >= remaining1 /\ remaining2 >= remaining3
             THEN <<1, 3, 2>>
             ELSE <<1, 2, 3>>

\* the three vTaskPrioritySet calls of the branch updatePriorities takes,
\* as the priorities of <<task1, task2, task3>>
PrioritiesFor(d1, d2, d3, currentTick) ==
    LET remaining1 == Remaining(d1, currentTick)
        remaining2 == Remaining(d2, currentTick)
        remaining3 == Remaining(d3, currentTick)
    IN  IF remaining1 <= remaining2 /\ remaining1 <= remaining3
        THEN <<3, 2, 1>>
        ELSE IF remaining2 <= remaining1 /\ remaining2 <= remaining3
             THEN <<1, 3, 2>>
             ELSE <<1, 2, 3>>

NoCall == [called |-> FALSE, d |-> <<0, 0, 0>>, tick |-> 0, prio |-> <<0, 0, 0>>]

\* the globals as main() leaves them when it starts the scheduler
UPStart ==
    /\ deadline1 = 500
    /\ deadline2 = 1000
    /\ deadline3 = 1500
    /\ xTickCount = 0
    /\ taskPriority = <<1, 1, 1>>
    /\ upLast = NoCall
    /\ upPrev = NoCall

\* function-level start: any deadlines, any tick; xTaskCreate gave priority 1
UPInputs ==
    /\ deadline1 \in 0..MaxDeadline
    /\ deadline2 \in 0..MaxDeadline
    /\ deadline3 \in 0..MaxDeadline
    /\ xTickCount \in 0..MaxTickCount
    /\ taskPriority = <<1, 1, 1>>
    /\ upLast = NoCall
    /\ upPrev = NoCall

\* one call of updatePriorities()
updatePriorities ==
    /\ taskPriority' = PrioritiesFor(deadline1, deadline2, deadline3, xTickCount)
    /\ upLast' = [called |-> TRUE, d |-> <<deadline1, deadline2, deadline3>>,
                   tick |-> xTickCount, prio |-> taskPriority']
    /\ upPrev' = upLast
    /\ UNCHANGED <<deadline1, deadline2, deadline3, xTickCount>>
    /\ UNCHANGED <<ftVars, wdVars, demoVars, edfVars>>

\* the kernel's tick interrupt
UPTick ==
    /\ xTickCount < MaxTickCount
    /\ xTickCount' = xTickCount + 1
    /\ UNCHANGED <<deadline1, deadline2, deadline3, taskPriority, upLast, upPrev>>
    /\ UNCHANGED <<ftVars, wdVars, demoVars, edfVars>>


\* the demo's clock stops after this many ticks of 100
DemoHorizon == 24
MaxDemoTick == DemoHorizon * 100

\* pdMS_TO_TICKS(200), (300), (400): the delay of task1, task2, task3
DelayOf(t) == IF t = 1 THEN 200 ELSE IF t = 2 THEN 300 ELSE 400

\* main(): the three tasks are created ready, at the top of their loops
DemoStart ==
    /\ dPc = [t \in Tasks3 |-> "enter"]
    /\ dWake = [t \in Tasks3 |-> 0]
    /\ dBranch = [t \in Tasks3 |-> <<0, 0, 0>>]

\* kernel: a ready task runs when no ready task has a higher priority
TaskReady(t) == dWake[t] <= xTickCount
TaskRuns(t) ==
    /\ TaskReady(t)
    /\ \A u \in Tasks3 : TaskReady(u) => taskPriority[u] <= taskPriority[t]

DemoUnchangedOthers == UNCHANGED <<ftVars, wdVars, edfVars>>

\* updatePriorities, lines 31-37: the tick is read, the remaining times are
\* computed and the branch is chosen
TaskEnter(t) ==
    /\ TaskRuns(t) /\ dPc[t] = "enter"
    /\ dBranch' = [dBranch EXCEPT ![t] =
                      PrioritiesFor(deadline1, deadline2, deadline3, xTickCount)]
    /\ dPc' = [dPc EXCEPT ![t] = "set1"]
    /\ UNCHANGED <<deadline1, deadline2, deadline3, xTickCount, taskPriority,
                   upLast, upPrev, dWake>>
    /\ DemoUnchangedOthers

SetIndex(pc) == IF pc = "set1" THEN 1 ELSE IF pc = "set2" THEN 2 ELSE 3
AfterSet(pc) == IF pc = "set1" THEN "set2" ELSE IF pc = "set2" THEN "set3" ELSE "delay"

\* one vTaskPrioritySet call of the chosen branch; a task made more urgent
\* than the caller preempts it before the next call. The third call ends
\* updatePriorities.
TaskSet(t) ==
    /\ TaskRuns(t) /\ dPc[t] \in {"set1", "set2", "set3"}
    /\ taskPriority' = [taskPriority EXCEPT ![SetIndex(dPc[t])] = dBranch[t][SetIndex(dPc[t])]]
    /\ dPc' = [dPc EXCEPT ![t] = AfterSet(@)]
    /\ IF dPc[t] = "set3"
       THEN /\ upLast' = [called |-> TRUE, d |-> <<deadline1, deadline2, deadline3>>,
                          tick |-> xTickCount, prio |-> dBranch[t]]
            /\ upPrev' = upLast
       ELSE UNCHANGED <<upLast, upPrev>>
    /\ UNCHANGED <<deadline1, deadline2, deadline3, xTickCount, dWake, dBranch>>
    /\ DemoUnchangedOthers

\* printf(...); vTaskDelay(pdMS_TO_TICKS(...)); the deadlines are only read
TaskDelay(t) ==
    /\ TaskRuns(t) /\ dPc[t] = "delay"
    /\ dWake' = [dWake EXCEPT ![t] = xTickCount + DelayOf(t)]
    /\ dPc' = [dPc EXCEPT ![t] = "enter"]
    /\ UNCHANGED <<deadline1, deadline2, deadline3, xTickCount, taskPriority,
                   upLast, upPrev, dBranch>>
    /\ DemoUnchangedOthers

DemoNextWake == CHOOSE w \in {dWake[t] : t \in Tasks3} : \A u \in Tasks3 : w <= dWake[u]

\* every task is blocked: the tick count advances to the earliest wake time
DemoAdvance ==
    /\ \A t \in Tasks3 : ~TaskReady(t)
    /\ DemoNextWake <= MaxDemoTick
    /\ xTickCount' = DemoNextWake
    /\ UNCHANGED <<deadline1, deadline2, deadline3, taskPriority, upLast, upPrev,
                   dPc, dWake, dBranch>>
    /\ DemoUnchangedOthers

DemoNext ==
    \/ \E t \in Tasks3 : TaskEnter(t)
    \/ \E t \in Tasks3 : TaskSet(t)
    \/ \E t \in Tasks3 : TaskDelay(t)
    \/ DemoAdvance

(***************************************************************************)
(* Two-task EDF demo                                                       *)
(***************************************************************************)

Handles == {"A", "B"}

\* the period main_blinky configures for the task behind each handle
OwnPeriod(h) == IF h = "A" THEN 300 ELSE 500

\* the slot of edfTasks each task got as pvParameters
SlotOf(h) == IF h = "A" THEN 0 ELSE 1

NoPass == [valid |-> FALSE, equal |-> FALSE, swapped |-> FALSE, stale |-> {}]

\* the EDF demo's clock stops after this many ticks of 50
EDFHorizon == 80
MaxEDFTick == EDFHorizon * 50

\* main_blinky: static edfTasks (next_deadline 0), both tasks at priority 1
EDFStart ==
    /\ edfTick = 0
    /\ edfTasks = [k \in 0..1 |->
                      [handle |-> IF k = 0 THEN "A" ELSE "B",
                       period |-> IF k = 0 THEN 300 ELSE 500,
                       next_deadline |-> 0]]
    /\ edfPriority = [h \in Handles |-> 1]
    /\ ePc = [h \in Handles |-> "init"]
    /\ eWake = [h \in Handles |-> 0]
    /\ xLastWake = [h \in Handles |-> 0]
    /\ sWake = 0
    /\ eRel = [h \in Handles |-> -1]
    /\ sLast = NoPass

EDFUnchangedOthers == UNCHANGED <<upVars, ftVars, wdVars, demoVars>>

\* vEDF_Scheduler has priority configMAX_PRIORITIES - 1, above the priorities
\* 3 and 2 it hands out: it runs as soon as its delay has expired
SchedulerReady == sWake <= edfTick
EDFTaskReady(h) == eWake[h] <= edfTick
EDFTaskRuns(h) ==
    /\ ~SchedulerReady
    /\ EDFTaskReady(h)
    /\ \A g \in Handles : EDFTaskReady(g) => edfPriority[g] <= edfPriority[h]

\* TickType_t xLastWake = xTaskGetTickCount();
EDFTaskInit(h) ==
    /\ EDFTaskRuns(h) /\ ePc[h] = "init"
    /\ xLastWake' = [xLastWake EXCEPT ![h] = edfTick]
    /\ ePc' = [ePc EXCEPT ![h] = "execute"]
    /\ UNCHANGED <<edfTick, edfTasks, edfPriority, eWake, sWake, eRel, sLast>>
    /\ EDFUnchangedOthers

\* task->next_deadline = xTaskGetTickCount() + task->period, through the
\* pointer the task got at creation
EDFTaskExecute(h) ==
    /\ EDFTaskRuns(h) /\ ePc[h] = "execute"
    /\ edfTasks' = [edfTasks EXCEPT ![SlotOf(h)].next_deadline =
                        edfTick + edfTasks[SlotOf(h)].period]
    /\ eRel' = [eRel EXCEPT ![h] = edfTick]
    /\ ePc' = [ePc EXCEPT ![h] = "delay"]
    /\ UNCHANGED <<edfTick, edfPriority, eWake, xLastWake, sWake, sLast>>
    /\ EDFUnchangedOthers

\* vTaskDelayUntil(&xLastWake, task->period): blocks only if the wake time is
\* ahead of the tick count
EDFTaskDelayUntil(h) ==
    /\ EDFTaskRuns(h) /\ ePc[h] = "delay"
    /\ xLastWake' = [xLastWake EXCEPT ![h] = @ + edfTasks[SlotOf(h)].period]
    /\ eWake' = [eWake EXCEPT ![h] = xLastWake'[h]]
    /\ ePc' = [ePc EXCEPT ![h] = "execute"]
    /\ UNCHANGED <<edfTick, edfTasks, edfPriority, sWake, eRel, sLast>>
    /\ EDFUnchangedOthers

\* variant: the records are exchanged on equal deadlines too
SwapNeededOnTie(dj, di) == dj <= di

\* if (edfTasks[j].next_deadline < edfTasks[i].next_deadline)
SwapNeeded(dj, di) == dj < di

\* the two nested loops over i = 0, j = 1: at most one exchange
Reordered(tasks) ==
    IF SwapNeeded(tasks[1].next_deadline, tasks[0].next_deadline)
    THEN [k \in 0..1 |-> tasks[1 - k]]
    ELSE tasks

\* the record that carries handle h
RecordOf(tasks, h) == tasks[CHOOSE k \in 0..1 : tasks[k].handle = h]

\* handles whose record does not hold release + own period
StaleHandles(tasks) ==
    {h \in Handles : eRel[h] >= 0
                     /\ RecordOf(tasks, h).next_deadline # eRel[h] + OwnPeriod(h)}

\* one pass of vEDF_Scheduler: reorder, vTaskPrioritySet(edfTasks[i].handle,
\* 3 - i) for i = 0, 1, vTaskDelay(pdMS_TO_TICKS(50))
SchedulerPass ==
    /\ SchedulerReady
    /\ edfTasks' = Reordered(edfTasks)
    /\ edfPriority' = [h \in Handles |->
                          IF edfTasks'[0].handle = h THEN 3
                          ELSE IF edfTasks'[1].handle = h THEN 2
                          ELSE edfPriority[h]]
    /\ sWake' = edfTick + 50
    /\ sLast' = [valid |-> TRUE,
                 equal |-> edfTasks[0].next_deadline = edfTasks[1].next_deadline,
                 swapped |-> sLast.swapped \/ edfTasks' # edfTasks,
                 stale |-> StaleHandles(edfTasks)]
    /\ UNCHANGED <<edfTick, ePc, eWake, xLastWake, eRel>>
    /\ EDFUnchangedOthers

EDFWakeTimes == {eWake[h] : h \in Handles} \cup {sWake}
EDFNextWake == CHOOSE w \in EDFWakeTimes : \A v \in EDFWakeTimes : w <= v

\* everything is blocked: the tick count advances to the earliest wake time
EDFAdvance ==
    /\ ~SchedulerReady /\ \A h \in Handles : ~EDFTaskReady(h)
    /\ EDFNextWake <= MaxEDFTick
    /\ edfTick' = EDFNextWake
    /\ UNCHANGED <<edfTasks, edfPriority, ePc, eWake, xLastWake, sWake, eRel, sLast>>
    /\ EDFUnchangedOthers

EDFNext ==
    \/ \E h \in Handles : EDFTaskInit(h)
    \/ \E h \in Handles : EDFTaskExecute(h)
    \/ \E h \in Handles : EDFTaskDelayUntil(h)
    \/ SchedulerPass
    \/ EDFAdvance


(***************************************************************************)
(* Fault-tolerant demo                                                     *)
(***************************************************************************)

NUM_FT_TASKS == 2
Jobs == 0..(NUM_FT_TASKS - 1)

\* the model stops the clock after this many periods of JobA
FTHorizon == 11
MaxFTTick == FTHorizon * 500

\* ftTasks[i] as main_fault_tolerant_demo configures it; pdMS_TO_TICKS is the
\* identity, so period and deadline keep their values
FTConfig ==
    [i \in Jobs |->
        [period |-> IF i = 0 THEN 500 ELSE 700,
         deadline |-> IF i = 0 THEN 800 ELSE 1000,
         primarySuccess |-> TRUE,
         successCount |-> 0,
         backupActivations |-> 0,
         deadlineMisses |-> 0]]

NoCycle == [valid |-> FALSE, rel |-> 0, relAct |-> 0, done |-> 0, ok |-> FALSE, missInc |-> 0]
NoCheck == [valid |-> FALSE, read |-> FALSE, actInc |-> 0, succInc |-> 0,
            worked |-> FALSE, afterTimelySuccess |-> FALSE, duringWork |-> FALSE]

\* the state in which main_fault_tolerant_demo calls vTaskStartScheduler
FTStart ==
    /\ ftTick = 0
    /\ ftTasks = FTConfig
    /\ xNextWake = [i \in Jobs |-> 0]
    /\ pPc = [i \in Jobs |-> "init"]
    /\ pWake = [i \in Jobs |-> 0]
    /\ bPc = [i \in Jobs |-> "delay"]
    /\ bWake = [i \in Jobs |-> 0]
    /\ mPc = "delay"
    /\ mWake = 0
    /\ pRel = [i \in Jobs |-> 0]
    /\ pLast = [i \in Jobs |-> NoCycle]
    /\ bLast = [i \in Jobs |-> NoCheck]
    /\ bChecks = [i \in Jobs |-> -1]
    /\ relChecks = [i \in Jobs |-> -1]

\* kernel: the ready tasks, and who may run (priorities 3, 2, 1 of xTaskCreate)
PrimaryReady(i) == pWake[i] <= ftTick
BackupReady(i) == bWake[i] <= ftTick
MonitorReady == mWake <= ftTick
PrimaryRuns(i) == PrimaryReady(i)
BackupRuns(i) == BackupReady(i) /\ \A k \in Jobs : ~PrimaryReady(k)
MonitorRuns == MonitorReady /\ \A k \in Jobs : ~PrimaryReady(k) /\ ~BackupReady(k)

FTUnchangedUP == UNCHANGED <<upVars, wdVars, demoVars, edfVars>>
FTKeepsChecks == UNCHANGED <<bChecks, relChecks>>

\* TickType_t xNextWake = xTaskGetTickCount();
PrimaryInit(i) ==
    /\ PrimaryRuns(i) /\ pPc[i] = "init"
    /\ xNextWake' = [xNextWake EXCEPT ![i] = ftTick]
    /\ pPc' = [pPc EXCEPT ![i] = "reset"]
    /\ UNCHANGED <<ftTick, ftTasks, pWake, bPc, bWake, mPc, mWake, pRel, pLast, bLast>>
    /\ FTUnchangedUP /\ FTKeepsChecks

\* variant: the flag is not reset at the start of the cycle
ResetFlagOmitted(i) == ftTasks

\* task->primarySuccess = pdFALSE; at the top of the Primary's loop
ResetFlag(i) == [ftTasks EXCEPT ![i].primarySuccess = FALSE]

\* task->primarySuccess = pdFALSE; vTaskDelayUntil(&xNextWake, task->period);
\* the task blocks only when the wake time is still ahead
PrimaryReset(i) ==
    /\ PrimaryRuns(i) /\ pPc[i] = "reset"
    /\ ftTasks' = ResetFlag(i)
    /\ LET xTimeToWake == xNextWake[i] + ftTasks[i].period
       IN  /\ xNextWake' = [xNextWake EXCEPT ![i] = xTimeToWake]
           /\ pWake' = [pWake EXCEPT ![i] = IF ftTick < xTimeToWake
                                            THEN xTimeToWake ELSE @]
    /\ pPc' = [pPc EXCEPT ![i] = "released"]
    /\ UNCHANGED <<ftTick, bPc, bWake, mPc, mWake, pRel, pLast, bLast>>
    /\ FTUnchangedUP /\ FTKeepsChecks

\* the workload after the release: rand() % 10 == 0 is the overrun
PrimaryWorkload(i, overrun) ==
    /\ PrimaryRuns(i) /\ pPc[i] = "released"
    /\ pRel' = [pRel EXCEPT ![i] = ftTick]
    /\ IF overrun
       THEN /\ pWake' = [pWake EXCEPT ![i] = ftTick + (ftTasks[i].deadline * 2)]
            /\ pPc' = [pPc EXCEPT ![i] = "overrun"]
       ELSE /\ pWake' = [pWake EXCEPT ![i] = ftTick + (ftTasks[i].period \div 2)]
            /\ pPc' = [pPc EXCEPT ![i] = "success"]
    /\ relChecks' = [relChecks EXCEPT ![i] = bChecks[i]]
    /\ bChecks' = [bChecks EXCEPT ![i] = 0]
    /\ UNCHANGED <<ftTick, ftTasks, xNextWake, bPc, bWake, mPc, mWake, pLast, bLast>>
    /\ FTUnchangedUP

\* after the overrun delay: task->primarySuccess = pdFALSE;
PrimaryOverrun(i) ==
    /\ PrimaryRuns(i) /\ pPc[i] = "overrun"
    /\ ftTasks' = [ftTasks EXCEPT ![i].primarySuccess = FALSE]
    /\ pPc' = [pPc EXCEPT ![i] = "check"]
    /\ UNCHANGED <<ftTick, xNextWake, pWake, bPc, bWake, mPc, mWake, pRel, pLast, bLast>>
    /\ FTUnchangedUP /\ FTKeepsChecks

\* after the nominal delay: task->primarySuccess = pdTRUE; task->successCount++;
PrimarySuccess(i) ==
    /\ PrimaryRuns(i) /\ pPc[i] = "success"
    /\ ftTasks' = [ftTasks EXCEPT ![i].primarySuccess = TRUE,
                                  ![i].successCount = @ + 1]
    /\ pPc' = [pPc EXCEPT ![i] = "check"]
    /\ UNCHANGED <<ftTick, xNextWake, pWake, bPc, bWake, mPc, mWake, pRel, pLast, bLast>>
    /\ FTUnchangedUP /\ FTKeepsChecks

\* now > (xNextWake - task->period + task->deadline)
MissedDeadline(now, nextWake, period, deadline) ==
    now > (nextWake - period + deadline)

\* variant: a late success is logged but not counted
MissIncrementFailuresOnly(i, now) ==
    IF MissedDeadline(now, xNextWake[i], ftTasks[i].period, ftTasks[i].deadline)
    THEN (IF ~ftTasks[i].primarySuccess THEN 1 ELSE 0)
    ELSE 0

\* the deadline-miss accounting: both branches of the inner if count a miss
MissIncrement(i, now) ==
    IF MissedDeadline(now, xNextWake[i], ftTasks[i].period, ftTasks[i].deadline)
    THEN (IF ~ftTasks[i].primarySuccess THEN 1 ELSE 1)
    ELSE 0

\* TickType_t now = xTaskGetTickCount(); if (now > ...) task->deadlineMisses++;
PrimaryCheck(i) ==
    /\ PrimaryRuns(i) /\ pPc[i] = "check"
    /\ LET inc == MissIncrement(i, ftTick)
       IN  /\ ftTasks' = [ftTasks EXCEPT ![i].deadlineMisses = @ + inc]
           /\ pLast' = [pLast EXCEPT ![i] =
                  [valid |-> TRUE, rel |-> xNextWake[i], relAct |-> pRel[i],
                   done |-> ftTick, ok |-> ftTasks[i].primarySuccess,
                   missInc |-> inc]]
    /\ pPc' = [pPc EXCEPT ![i] = "reset"]
    /\ UNCHANGED <<ftTick, xNextWake, pWake, bPc, bWake, mPc, mWake, pRel, bLast>>
    /\ FTUnchangedUP /\ FTKeepsChecks

\* vTaskDelay(pdMS_TO_TICKS(task->deadline));
BackupDelay(i) ==
    /\ BackupRuns(i) /\ bPc[i] = "delay"
    /\ bWake' = [bWake EXCEPT ![i] = ftTick + ftTasks[i].deadline]
    /\ bPc' = [bPc EXCEPT ![i] = "check"]
    /\ UNCHANGED <<ftTick, ftTasks, xNextWake, pPc, pWake, mPc, mWake, pRel, pLast, bLast>>
    /\ FTUnchangedUP /\ FTKeepsChecks

\* the Primary's latest cycle wrote TRUE before its deadline offset had elapsed
\* since its release, and the Primary has not been released again
TimelySuccess(i) ==
    /\ pLast[i].valid /\ pLast[i].ok
    /\ pLast[i].done < pLast[i].relAct + ftTasks[i].deadline
    /\ pPc[i] = "released" /\ ~PrimaryReady(i)

\* variant: the activation is counted in the wrong field
BackupCheckedWrongCounter(i) ==
    IF ~ftTasks[i].primarySuccess
    THEN [ftTasks EXCEPT ![i].successCount = @ + 1]
    ELSE ftTasks

\* variant: the negation of the test is dropped
BackupCheckedInverted(i) ==
    IF ftTasks[i].primarySuccess
    THEN [ftTasks EXCEPT ![i].backupActivations = @ + 1]
    ELSE ftTasks

\* variant: the activation is counted in the other job's record
BackupCheckedOtherJob(i) ==
    IF ~ftTasks[i].primarySuccess
    THEN [ftTasks EXCEPT ![1 - i].backupActivations = @ + 1]
    ELSE ftTasks

\* ftTasks after the Backup's check: task->backupActivations++ when
\* !task->primarySuccess, nothing otherwise
BackupChecked(i) ==
    IF ~ftTasks[i].primarySuccess
    THEN [ftTasks EXCEPT ![i].backupActivations = @ + 1]
    ELSE ftTasks

\* if (!task->primarySuccess) { backupActivations++; vTaskDelay(period / 4); }
\* else skip
BackupCheck(i) ==
    /\ BackupRuns(i) /\ bPc[i] = "check"
    /\ ftTasks' = BackupChecked(i)
    /\ bWake' = [bWake EXCEPT ![i] = IF ~ftTasks[i].primarySuccess
                                     THEN ftTick + (ftTasks[i].period \div 4)
                                     ELSE @]
    /\ bLast' = [bLast EXCEPT ![i] =
           [valid |-> TRUE, read |-> ftTasks[i].primarySuccess,
            actInc |-> ftTasks'[i].backupActivations - ftTasks[i].backupActivations,
            succInc |-> ftTasks'[i].successCount - ftTasks[i].successCount,
            worked |-> bWake'[i] > ftTick,
            afterTimelySuccess |-> TimelySuccess(i),
            duringWork |-> pPc[i] \in {"overrun", "success"}]]
    /\ bChecks' = [bChecks EXCEPT ![i] = IF @ >= 0 THEN @ + 1 ELSE @]
    /\ bPc' = [bPc EXCEPT ![i] = "delay"]
    /\ UNCHANGED <<ftTick, xNextWake, pPc, pWake, mPc, mWake, pRel, pLast, relChecks>>
    /\ FTUnchangedUP

\* vTaskDelay(pdMS_TO_TICKS(5000));
MonitorDelay ==
    /\ MonitorRuns /\ mPc = "delay"
    /\ mWake' = ftTick + 5000
    /\ mPc' = "print"
    /\ UNCHANGED <<ftTick, ftTasks, xNextWake, pPc, pWake, bPc, bWake, pRel, pLast, bLast>>
    /\ FTUnchangedUP /\ FTKeepsChecks

\* the summary: reads the counters, writes nothing
MonitorPrint ==
    /\ MonitorRuns /\ mPc = "print"
    /\ mPc' = "delay"
    /\ UNCHANGED <<ftTick, ftTasks, xNextWake, pPc, pWake, bPc, bWake, mWake, pRel, pLast, bLast>>
    /\ FTUnchangedUP /\ FTKeepsChecks

FTWakeTimes == {pWake[i] : i \in Jobs} \cup {bWake[i] : i \in Jobs} \cup {mWake}
FTNextWake == CHOOSE t \in FTWakeTimes : \A u \in FTWakeTimes : t <= u

\* every task is blocked: the tick count advances to the earliest wake time
FTAdvance ==
    /\ \A t \in FTWakeTimes : t > ftTick
    /\ FTNextWake <= MaxFTTick
    /\ ftTick' = FTNextWake
    /\ UNCHANGED <<ftTasks, xNextWake, pPc, pWake, bPc, bWake, mPc, mWake, pRel, pLast, bLast>>
    /\ FTUnchangedUP /\ FTKeepsChecks

FTNext ==
    \/ \E i \in Jobs : PrimaryInit(i)
    \/ \E i \in Jobs : PrimaryReset(i)
    \/ \E i \in Jobs : \E overrun \in BOOLEAN : PrimaryWorkload(i, overrun)
    \/ \E i \in Jobs : PrimaryOverrun(i)
    \/ \E i \in Jobs : PrimarySuccess(i)
    \/ \E i \in Jobs : PrimaryCheck(i)
    \/ \E i \in Jobs : BackupDelay(i)
    \/ \E i \in Jobs : BackupCheck(i)
    \/ MonitorDelay
    \/ MonitorPrint
    \/ FTAdvance


(***************************************************************************)
(* Watchdog demo                                                           *)
(***************************************************************************)

Workers == 1..2

\* the restart counter saturates here
MaxRestarts == 3
\* the count of wait returns without a worker's bit saturates here
MaxAbsentRuns == 4

\* pdMS_TO_TICKS(100): the workers' period and the supervisor's wait
WindowTicks == 100

\* (uint32_t)pvParameters: 1UL << 0 for Worker1, 1UL << 1 for Worker2
ulBit(w) == IF w = 1 THEN 1 ELSE 2

\* values a TaskHandle_t of a worker can take: two live workers and the
\* block a deleted worker leaves, which the allocator may or may not hand to
\* the next xTaskCreate
TaskIds == 1..3

\* value & bit, for a single-bit mask
HasBit(value, bit) == (value \div bit) % 2 = 1
\* value | bit (eSetBits), for a single-bit mask
SetBits(value, bit) == IF HasBit(value, bit) THEN value ELSE value + bit

NoIteration == [valid |-> FALSE, complete |-> FALSE, got |-> FALSE, bits |-> 0,
                before |-> <<0, 0>>, restarted |-> <<0, 0>>, atWait |-> <<0, 0>>]

\* the state in which main_watchdog_demo calls vTaskStartScheduler: the
\* supervisor and both workers are created and ready
WDStart ==
    /\ supPc = "wait"
    /\ supTimer = 0
    /\ ulNotifiedValue = 0
    /\ ucNotifyState = "notWaiting"
    /\ ulReceivedBits = 0
    /\ xGot = FALSE
    /\ ulMissed = <<0, 0>>
    /\ wPc = [w \in Workers |-> "notify"]
    /\ wTimer = [w \in Workers |-> 0]
    /\ everHung = [w \in Workers |-> FALSE]
    /\ restarts = [w \in Workers |-> 0]
    /\ absentRuns = [w \in Workers |-> 0]
    /\ itCur = NoIteration
    /\ itPrev = NoIteration
    /\ xWorker = [w \in Workers |-> w]
    /\ taskParam = [h \in TaskIds |-> IF h \in Workers THEN ulBit(h) ELSE 0]
    /\ taskSent = [h \in TaskIds |-> {}]

WDKeepsTasks == UNCHANGED <<xWorker, taskParam, taskSent>>

WDUnchangedOthers == UNCHANGED <<upVars, ftVars, demoVars, edfVars>>

\* kernel: the supervisor has priority 4, the workers priority 2
SupReady == supTimer = 0
WorkerReady(w) == wPc[w] # "hung" /\ wTimer[w] = 0
WorkerRuns(w) == WorkerReady(w) /\ ~SupReady

\* xTaskNotifyWait(0, ULONG_MAX, &ulReceivedBits, pdMS_TO_TICKS(100)), the call:
\* with no notification pending the task blocks for up to 100 ticks
SupWait ==
    /\ SupReady /\ supPc = "wait"
    /\ ulReceivedBits' = 0
    /\ IF ucNotifyState # "received"
       THEN /\ ucNotifyState' = "waiting"
            /\ supTimer' = WindowTicks
       ELSE UNCHANGED <<ucNotifyState, supTimer>>
    /\ supPc' = "waiting"
    /\ itCur' = IF itCur.valid
                THEN [itCur EXCEPT !.complete = TRUE, !.atWait = ulMissed]
                ELSE itCur
    /\ UNCHANGED <<ulNotifiedValue, xGot, ulMissed, wPc, wTimer, everHung,
                   restarts, absentRuns, itPrev>>
    /\ WDKeepsTasks
    /\ WDUnchangedOthers

\* xTaskNotifyWait, the return: the value is copied out; pdTRUE and the value
\* cleared (ULONG_MAX) when a notification was received, pdFALSE on a timeout
SupWaitReturn ==
    /\ SupReady /\ supPc = "waiting"
    /\ ulReceivedBits' = ulNotifiedValue
    /\ xGot' = (ucNotifyState = "received")
    /\ ulNotifiedValue' = IF ucNotifyState = "received" THEN 0 ELSE ulNotifiedValue
    /\ ucNotifyState' = "notWaiting"
    /\ supPc' = "update"
    /\ UNCHANGED <<supTimer, ulMissed, wPc, wTimer, everHung, restarts,
                   absentRuns, itCur, itPrev>>
    /\ WDKeepsTasks
    /\ WDUnchangedOthers

\* variant: a window without any notification is not counted
MissedAfterTimeoutIgnored(missed, got, bits, bit) ==
    IF got
    THEN (IF HasBit(bits, bit) THEN 0 ELSE missed + 1)
    ELSE missed

\* the miss counter of a worker after the if (xGot == pdTRUE) ... else ... block
MissedAfter(missed, got, bits, bit) ==
    IF got
    THEN (IF HasBit(bits, bit) THEN 0 ELSE missed + 1)
    ELSE missed + 1

\* whether this wait result carries the worker's bit
BitPresent(got, bits, w) == got /\ HasBit(bits, ulBit(w))

Saturate(n, max) == IF n < max THEN n ELSE max

\* lines 430-449: the counters are updated from xGot and ulReceivedBits
SupUpdate ==
    /\ SupReady /\ supPc = "update"
    /\ ulMissed' = <<MissedAfter(ulMissed[1], xGot, ulReceivedBits, ulBit(1)),
                     MissedAfter(ulMissed[2], xGot, ulReceivedBits, ulBit(2))>>
    /\ absentRuns' = [w \in Workers |->
                         IF BitPresent(xGot, ulReceivedBits, w) THEN 0
                         ELSE Saturate(absentRuns[w] + 1, MaxAbsentRuns)]
    /\ itPrev' = itCur
    /\ itCur' = [valid |-> TRUE, complete |-> FALSE, got |-> xGot,
                 bits |-> ulReceivedBits, before |-> ulMissed,
                 restarted |-> <<0, 0>>, atWait |-> <<0, 0>>]
    /\ supPc' = "restart1"
    /\ UNCHANGED <<supTimer, ulNotifiedValue, ucNotifyState, ulReceivedBits, xGot,
                   wPc, wTimer, everHung, restarts>>
    /\ WDKeepsTasks
    /\ WDUnchangedOthers

\* variant: the threshold is off by one, upwards
NeedsRestartAfterThree(missed) == missed >= 3

\* variant: the threshold is off by one, downwards
NeedsRestartAfterOne(missed) == missed >= 1

\* if (ulMissed >= 2)
NeedsRestart(missed) == missed >= 2

\* variant: the counter is not reset after the recreate
MissedKeptAfterRestart(missed) == missed

\* ulMissed = 0; after the recreate
MissedAfterRestart(missed) == 0

\* vTaskDelete(xWorker): the task behind the handle is gone
AfterDelete(params, h) == [params EXCEPT ![h] = 0]

\* handle values xTaskCreate can return
FreeHandles(params) == {h \in TaskIds : params[h] = 0}

\* variant: the recreated worker is given the other worker's bit
RestartParamOther(w) == ulBit(3 - w)

\* (void*)(uintptr_t)(1UL << 0) at line 458, (1UL << 1) at line 466
RestartParam(w) == ulBit(w)

\* lines 452-460 (w = 1) and 461-468 (w = 2): vTaskDelete, xTaskCreate with
\* the same bit at priority 2, counter reset
SupRestart(w) ==
    /\ SupReady /\ supPc = (IF w = 1 THEN "restart1" ELSE "restart2")
    /\ IF NeedsRestart(ulMissed[w])
       THEN /\ wPc' = [wPc EXCEPT ![w] = "notify"]
            /\ wTimer' = [wTimer EXCEPT ![w] = 0]
            /\ ulMissed' = [ulMissed EXCEPT ![w] = MissedAfterRestart(@)]
            /\ restarts' = [restarts EXCEPT ![w] = Saturate(@ + 1, MaxRestarts)]
            /\ absentRuns' = [absentRuns EXCEPT ![w] = 0]
            /\ itCur' = [itCur EXCEPT !.restarted[w] = @ + 1]
            /\ \E h \in FreeHandles(AfterDelete(taskParam, xWorker[w])) :
                  /\ xWorker' = [xWorker EXCEPT ![w] = h]
                  /\ taskParam' = [AfterDelete(taskParam, xWorker[w])
                                      EXCEPT ![h] = RestartParam(w)]
                  /\ taskSent' = [taskSent EXCEPT ![xWorker[w]] = {}, ![h] = {}]
       ELSE UNCHANGED <<wPc, wTimer, ulMissed, restarts, absentRuns, itCur,
                        xWorker, taskParam, taskSent>>
    /\ supPc' = (IF w = 1 THEN "restart2" ELSE "wait")
    /\ UNCHANGED <<supTimer, ulNotifiedValue, ucNotifyState, ulReceivedBits, xGot,
                   everHung, itPrev>>
    /\ WDUnchangedOthers

\* ulBit = (uint32_t)pvParameters of the task the worker's handle refers to;
\* if (xSupervisor != NULL) xTaskNotify(xSupervisor, ulBit, eSetBits);
\* xSupervisor was created first; a waiting supervisor is unblocked and,
\* having the higher priority, runs before the worker continues
WorkerNotify(w) ==
    /\ WorkerRuns(w) /\ wPc[w] = "notify"
    /\ ulNotifiedValue' = SetBits(ulNotifiedValue, taskParam[xWorker[w]])
    /\ taskSent' = [taskSent EXCEPT ![xWorker[w]] = @ \cup {taskParam[xWorker[w]]}]
    /\ UNCHANGED <<xWorker, taskParam>>
    /\ supTimer' = IF ucNotifyState = "waiting" THEN 0 ELSE supTimer
    /\ ucNotifyState' = "received"
    /\ wPc' = [wPc EXCEPT ![w] = "delay"]
    /\ UNCHANGED <<supPc, ulReceivedBits, xGot, ulMissed, wTimer, everHung,
                   restarts, absentRuns, itCur, itPrev>>
    /\ WDUnchangedOthers

\* vPrintTimestamped(...); vTaskDelay(xPeriod);
WorkerDelay(w) ==
    /\ WorkerRuns(w) /\ wPc[w] = "delay"
    /\ wTimer' = [wTimer EXCEPT ![w] = WindowTicks]
    /\ wPc' = [wPc EXCEPT ![w] = "notify"]
    /\ UNCHANGED <<supPc, supTimer, ulNotifiedValue, ucNotifyState, ulReceivedBits,
                   xGot, ulMissed, everHung, restarts, absentRuns, itCur, itPrev>>
    /\ WDKeepsTasks
    /\ WDUnchangedOthers

\* the fault the watchdog is there for: the worker stops for ever (it sends no
\* further heartbeat) until the supervisor deletes it
WorkerHang(w) ==
    /\ wPc[w] # "hung"
    /\ wPc' = [wPc EXCEPT ![w] = "hung"]
    /\ wTimer' = [wTimer EXCEPT ![w] = 0]
    /\ everHung' = [everHung EXCEPT ![w] = TRUE]
    /\ UNCHANGED <<supPc, supTimer, ulNotifiedValue, ucNotifyState, ulReceivedBits,
                   xGot, ulMissed, restarts, absentRuns, itCur, itPrev>>
    /\ WDKeepsTasks
    /\ WDUnchangedOthers

WDTimers == {supTimer} \cup {wTimer[w] : w \in {v \in Workers : wPc[v] # "hung"}}
WDNextExpiry == CHOOSE t \in WDTimers : \A u \in WDTimers : t <= u

\* every task is blocked: the tick count advances to the earliest expiry
WDAdvance ==
    /\ ~SupReady
    /\ \A w \in Workers : ~WorkerReady(w)
    /\ supTimer' = supTimer - WDNextExpiry
    /\ wTimer' = [w \in Workers |->
                     IF wPc[w] # "hung" THEN wTimer[w] - WDNextExpiry ELSE wTimer[w]]
    /\ UNCHANGED <<supPc, ulNotifiedValue, ucNotifyState, ulReceivedBits, xGot,
                   ulMissed, wPc, everHung, restarts, absentRuns, itCur, itPrev>>
    /\ WDKeepsTasks
    /\ WDUnchangedOthers

SupStep == SupWait \/ SupWaitReturn \/ SupUpdate \/ (\E w \in Workers : SupRestart(w))
WorkerStep == \E w \in Workers : WorkerNotify(w) \/ WorkerDelay(w)

WDNext ==
    \/ SupWait
    \/ SupWaitReturn
    \/ SupUpdate
    \/ \E w \in Workers : SupRestart(w)
    \/ \E w \in Workers : WorkerNotify(w)
    \/ \E w \in Workers : WorkerDelay(w)
    \/ \E w \in Workers : WorkerHang(w)
    \/ WDAdvance


(***************************************************************************)
(* Specifications                                                          *)
(***************************************************************************)

UPInit == UPInputs /\ DemoStart /\ FTStart /\ WDStart /\ EDFStart
UPNext == updatePriorities \/ UPTick
SpecUP == UPInit /\ [][UPNext]_vars

FTInit == UPStart /\ DemoStart /\ FTStart /\ WDStart /\ EDFStart
SpecFT == FTInit /\ [][FTNext]_vars

WDInit == UPStart /\ DemoStart /\ FTStart /\ WDStart /\ EDFStart

EDFInit == UPStart /\ DemoStart /\ FTStart /\ WDStart /\ EDFStart
SpecEDF == EDFInit /\ [][EDFNext]_vars

DemoInit == UPStart /\ DemoStart /\ FTStart /\ WDStart /\ EDFStart
SpecDemo == DemoInit /\ [][DemoNext]_vars
SpecWD == WDInit /\ [][WDNext]_vars

\* the kernel runs the ready task of highest priority and its tick advances
SpecWDFair ==
    /\ WDInit /\ [][WDNext]_vars
    /\ WF_vars(SupStep) /\ WF_vars(WorkerStep) /\ WF_vars(WDAdvance)

(***************************************************************************)
(* Properties                                                              *)
(***************************************************************************)

\* remaining times of the latest call
LastRemaining == [i \in Tasks3 |-> Remaining(upLast.d[i], upLast.tick)]

\* C1: when the three remaining times are pairwise distinct, a call of
\* updatePriorities gives 3 to the task with the smallest remaining time, 2 to
\* the middle one and 1 to the largest (priority = 3 - number of tasks that
\* are strictly more urgent).
C1_DistinctRemainingOrdered ==
    (upLast.called /\ \A i, j \in Tasks3 : i # j => LastRemaining[i] # LastRemaining[j])
    => \A i \in Tasks3 :
          upLast.prio[i] =
              3 - Cardinality({j \in Tasks3 : LastRemaining[j] < LastRemaining[i]})

\* C2: among tasks with equal remaining time the lower index gets the strictly
\* higher priority, and a repeated call with the same inputs gives the same
\* assignment.
C2_TiesByIndex ==
    /\ upLast.called =>
          \A i, j \in Tasks3 :
              (i < j /\ LastRemaining[i] = LastRemaining[j])
              => upLast.prio[i] > upLast.prio[j]
    /\ (upLast.called /\ upPrev.called /\ upPrev.d = upLast.d /\ upPrev.tick = upLast.tick)
          => upPrev.prio = upLast.prio


\* C3: when the Primary's cycle wrote primarySuccess = TRUE before the deadline
\* offset had elapsed since its release, the Backup's check made before the
\* Primary's next release skips: no substitute workload, backupActivations
\* unchanged.
C3_BackupSkipsAfterTimelySuccess ==
    \A i \in Jobs :
        (bLast[i].valid /\ bLast[i].afterTimelySuccess)
        => (bLast[i].actInc = 0 /\ ~bLast[i].worked)

\* C4: a Backup check that reads primarySuccess as not TRUE adds exactly 1 to
\* backupActivations and leaves successCount alone.
C4_BackupActivationCounted ==
    \A i \in Jobs :
        (bLast[i].valid /\ ~bLast[i].read)
        => (bLast[i].actInc = 1 /\ bLast[i].succInc = 0)

C4_Witness ==
    \E i \in Jobs :
        /\ bLast[i].valid /\ ~bLast[i].read
        /\ ftTasks[i].backupActivations >= 2
        /\ ftTasks[i].successCount >= 1

\* C5: a Primary cycle whose workload completes at a tick >= release +
\* deadline offset adds exactly 1 to deadlineMisses, after a success as after
\* an overrun; the release is taken both as the scheduled wake time
\* (xNextWake) and as the tick at which vTaskDelayUntil returned.
C5_LateCompletionCounted ==
    \A i \in Jobs :
        pLast[i].valid =>
            \A r \in {pLast[i].rel, pLast[i].relAct} :
                (pLast[i].done >= r + ftTasks[i].deadline) => pLast[i].missInc = 1

\* a late overrun of one job and a late success of a job, both counted
C5_Witness ==
    \E i, k \in Jobs :
        /\ pLast[i].valid /\ ~pLast[i].ok
        /\ pLast[i].done >= pLast[i].relAct + ftTasks[i].deadline
        /\ pLast[i].missInc = 1
        /\ pLast[k].valid /\ pLast[k].ok
        /\ pLast[k].done >= pLast[k].rel + ftTasks[k].deadline
        /\ pLast[k].missInc = 1
        /\ ftTasks[k].deadlineMisses >= 2

\* whether the wait result of iteration it lacks worker w's bit (a notification
\* without the bit, or a timeout)
Absent(it, w) == ~BitPresent(it.got, it.bits, w)

\* C6: a worker that never hangs (it sends its bit once per 100-tick period)
\* is never deleted and recreated.
C6_HealthyWorkerNeverRestarted ==
    \A w \in Workers : ~everHung[w] => restarts[w] = 0

\* C7 as stated: a bit absent from two consecutive wait results means exactly
\* one delete-and-recreate at the second, and a counter of 0 at the next wait.
C7_TwoAbsencesRestart ==
    \A w \in Workers :
        (itPrev.valid /\ itCur.complete /\ Absent(itPrev, w) /\ Absent(itCur, w))
        => (itCur.restarted[w] = 1 /\ itCur.atWait[w] = 0)

\* C7 amended: the same, for two consecutive absences counted from a miss
\* counter of 0 (the first of the two is not itself the second miss of an
\* earlier pair).
C7_TwoAbsencesFromZeroRestart ==
    \A w \in Workers :
        (itPrev.valid /\ itCur.complete /\ itPrev.before[w] = 0
            /\ Absent(itPrev, w) /\ Absent(itCur, w))
        => (itPrev.restarted[w] = 0 /\ itCur.restarted[w] = 1 /\ itCur.atWait[w] = 0)

C7_Witness ==
    \E w \in Workers :
        /\ itPrev.valid /\ itCur.complete /\ itPrev.before[w] = 0
        /\ Absent(itPrev, w) /\ Absent(itCur, w)
        /\ itCur.restarted[w] = 1 /\ restarts[w] >= 1
        /\ supPc = "waiting"

\* C8: counter 0, then the bit absent from one wait result and present in the
\* next: no delete-and-recreate in either iteration, counter 0 after the second.
C8_MissThenHeartbeat ==
    \A w \in Workers :
        (itPrev.valid /\ itCur.valid /\ itPrev.before[w] = 0
            /\ Absent(itPrev, w) /\ ~Absent(itCur, w))
        => /\ itPrev.restarted[w] = 0
           /\ itCur.restarted[w] = 0
           /\ itCur.before[w] = 1
           /\ ulMissed[w] = 0
           /\ (itCur.complete => itCur.atWait[w] = 0)

C8_Witness ==
    \E w \in Workers :
        /\ itPrev.valid /\ itCur.complete /\ itPrev.before[w] = 0
        /\ Absent(itPrev, w) /\ ~Absent(itCur, w)
        /\ restarts[w] = 0 /\ ulMissed[w] = 0

\* C9: a hung worker is eventually deleted and recreated, and no later than
\* the second wait return after its last heartbeat was consumed: when the
\* supervisor waits again, at most one wait result since then lacked its bit.
C9_HungWorkerRestarted ==
    /\ \A w \in Workers : (wPc[w] = "hung") ~> (wPc[w] # "hung")
    /\ [](\A w \in Workers :
            /\ absentRuns[w] <= 2
            /\ (supPc \in {"wait", "waiting"} => absentRuns[w] <= 1))

C9_Witness ==
    \E w \in Workers :
        /\ everHung[w] /\ wPc[w] # "hung" /\ restarts[w] >= 1
        /\ everHung[3 - w] /\ wPc[3 - w] = "hung"

\* C10: whenever the supervisor begins (or sits in) a wait both counters are 0
\* or 1; a counter is 2 or more only between the counter update and that
\* worker's restart step of the same iteration.
C10_MissCounterRange ==
    /\ supPc \in {"wait", "waiting", "update"} => \A w \in Workers : ulMissed[w] \in {0, 1}
    /\ ulMissed[1] >= 2 => supPc = "restart1"
    /\ ulMissed[2] >= 2 => supPc \in {"restart1", "restart2"}
    /\ \A w \in Workers : ulMissed[w] <= 2

C10_Witness ==
    /\ supPc = "restart2" /\ ulMissed[2] = 2 /\ ulMissed[1] = 0
    /\ itCur.restarted[1] = 1

\* C11: between two consecutive releases of a job's Primary the job's Backup
\* reads primarySuccess exactly once.
C11_OneCheckPerPeriod ==
    \A i \in Jobs : relChecks[i] \in {-1, 1}

\* C12: a Backup check made while the Primary is released and has not finished
\* the cycle's workload reads FALSE and activates; no check ever reads a TRUE
\* left over from an earlier cycle or from initialisation.
C12_CheckDuringWorkActivates ==
    \A i \in Jobs :
        /\ (bLast[i].valid /\ bLast[i].duringWork)
               => (~bLast[i].read /\ bLast[i].actInc = 1 /\ bLast[i].worked)
        /\ bLast[i].valid => ~bLast[i].read

C12_Witness ==
    \E i \in Jobs :
        /\ bLast[i].valid /\ bLast[i].duringWork /\ bLast[i].actInc = 1
        /\ ftTasks[i].successCount >= 1

\* C15: single-writer discipline of the job record. A Backup step leaves its
\* job's primarySuccess, successCount and deadlineMisses alone, a Primary step
\* leaves backupActivations alone, the Monitor changes no field, and no task
\* changes the other job's record (a task's step is a step that moves its
\* position).
C15_SingleWriter ==
    [][\A i \in Jobs :
          /\ bPc'[i] # bPc[i] =>
                /\ ftTasks'[i].primarySuccess = ftTasks[i].primarySuccess
                /\ ftTasks'[i].successCount = ftTasks[i].successCount
                /\ ftTasks'[i].deadlineMisses = ftTasks[i].deadlineMisses
          /\ pPc'[i] # pPc[i] =>
                ftTasks'[i].backupActivations = ftTasks[i].backupActivations
          /\ mPc' # mPc => ftTasks' = ftTasks
          /\ (bPc'[i] # bPc[i] \/ pPc'[i] # pPc[i]) =>
                \A k \in Jobs \ {i} : ftTasks'[k] = ftTasks[k]]_vars

\* every writer has written, and the Monitor has printed
C15_Witness ==
    /\ \A i \in Jobs :
          /\ ftTasks[i].backupActivations >= 1
          /\ ftTasks[i].successCount >= 1
          /\ ftTasks[i].deadlineMisses >= 1
    /\ mPc = "print" /\ mWake > 5000

\* C17: a Primary cycle that wakes at its scheduled release tick and runs
\* nominally (period / 2 ticks) records no deadline miss, for both jobs.
C17_NominalCycleNoMiss ==
    \A i \in Jobs :
        (pLast[i].valid /\ pLast[i].ok /\ pLast[i].relAct = pLast[i].rel
            /\ pLast[i].done = pLast[i].rel + (ftTasks[i].period \div 2))
        => pLast[i].missInc = 0

C14_OverdueMostUrgent ==
    upLast.called =>
        \A i, j \in Tasks3 :
            (LastRemaining[i] = 0 /\ LastRemaining[j] > 0)
            => upLast.prio[i] >= upLast.prio[j]

\* C19: in the demo the deadlines stay 500, 1000, 1500, every call of
\* updatePriorities assigns task1 = 3, task2 = 2, task3 = 1, and once a call
\* has completed the priorities never change again.
C19_DemoOrderFixed ==
    /\ deadline1 = 500 /\ deadline2 = 1000 /\ deadline3 = 1500
    /\ \A t \in Tasks3 : dPc[t] \in {"set1", "set2", "set3", "delay"} => dBranch[t] = <<3, 2, 1>>
    /\ upLast.called => (upLast.prio = <<3, 2, 1>> /\ taskPriority = <<3, 2, 1>>)

\* a call made after all three deadlines have passed, following a call at an earlier tick
C19_Witness ==
    /\ xTickCount > deadline3
    /\ upLast.called /\ upPrev.called
    /\ upLast.tick > deadline3 /\ upPrev.tick < upLast.tick
    /\ \A t \in Tasks3 : dWake[t] > xTickCount

\* C13: at every pass of vEDF_Scheduler, for every task that has run, the
\* record carrying the task's handle holds next_deadline = tick of the task's
\* most recent release + the task's own period.
C13_DeadlineTracksRelease == sLast.valid => sLast.stale = {}

\* C16: at every pass of vEDF_Scheduler that finds equal next_deadline in the
\* two records, EDF_TaskA gets priority 3 and EDF_TaskB priority 2.
C16_TieFavoursTaskA ==
    (sLast.valid /\ sLast.equal) => (edfPriority["A"] = 3 /\ edfPriority["B"] = 2)

\* a pass that found equal deadlines has set the priorities
C16_Witness ==
    /\ sLast.valid /\ sLast.equal
    /\ sWake = edfTick + 50
    /\ edfPriority["A"] = 3

\* C20: whenever the supervisor is about to wait, each heartbeat bit belongs
\* to exactly one live worker task, xWorker1 and xWorker2 refer to live tasks
\* created with bit 0 and bit 1, and those tasks have sent no other bit.
C20_OneLiveWorkerPerBit ==
    supPc = "wait" =>
        \A w \in Workers :
            /\ Cardinality({h \in TaskIds : taskParam[h] = ulBit(w)}) = 1
            /\ taskParam[xWorker[w]] = ulBit(w)
            /\ taskSent[xWorker[w]] \subseteq {ulBit(w)}

\* both workers have been restarted, one of them into a different handle
\* value, and the recreated tasks have sent their heartbeats
C20_Witness ==
    /\ supPc = "wait"
    /\ \A w \in Workers : restarts[w] >= 1 /\ taskSent[xWorker[w]] = {ulBit(w)}
    /\ restarts[1] >= 2
    /\ xWorker[1] = 3

====
